---- MODULE Spec2Model ----
(***************************************************************************)
(* State-machine model of the low-code development workflow                *)
(* (src/src/graph/low_code_workflow.py): the LangGraph graph built by      *)
(* LowCodeWorkflow._build_workflow_graph, its eight nodes, its three       *)
(* conditional edges, and the execute() entry point that wraps one run.    *)
(*                                                                         *)
(* The three agents the nodes call (developer, validator, knowledge        *)
(* manager) appear through the outcomes their entry points can hand back   *)
(* to the workflow: what they return, and whether they raise.              *)
(*                                                                         *)
(* Three further parts follow the workflow: one run of the developer's     *)
(* graph (src/src/agents/low_code_developer.py), one run of the            *)
(* validator's graph (src/src/agents/function_validator.py), and developer *)
(* runs going on at the same time on the one developer agent.  Each part   *)
(* has its own next-state relation and specification and leaves the        *)
(* variables of the others unchanged.                                      *)
(*                                                                         *)
(* Scores are integers in hundredths (0.90 is 90); rates are pairs         *)
(* <<numerator, denominator>>.                                             *)
(***************************************************************************)
EXTENDS Integers, Sequences, FiniteSets, TLC

(* ------------------------------ bounds --------------------------------- *)

\* most node executions of one graph run that the model follows
MaxSteps == 14

\* most operations in a solution handed back by the developer
MaxOps == 2

\* most similar solutions handed back by the knowledge search
MaxSimilar == 1

\* largest max_iterations a LowCodeWorkflowState is configured with
MaxIterCfg == 3

\* most test scenarios the validator generates for one solution
MaxScenarios == 2

\* developer runs going on at the same time
MaxRuns == 2

\* most calls of the knowledge manager's methods that the model follows
MaxCalls == 3

\* most solutions the store hands back to one search (the search asks
\* for at most 5)
MaxCandidates == 3

\* most tokens of a model response handed to a parser
MaxTokens == 3

(* ------------------------- program constants --------------------------- *)

\* LowCodeWorkflowState.max_iterations default
default_max_iterations == 3

\* LowCodeWorkflowState.auto_accept_threshold default (0.9)
auto_accept_threshold == 90

\* the literal 0.7 of _review_solution
review_threshold == 70

\* LowCodeDeveloperState.max_errors default
max_errors_dev == 5

\* ValidationState.max_errors default
max_errors_val == 3

(* --------------------------- data entities ----------------------------- *)

\* scores a ValidationResult can carry (field score, ge=0.0, le=1.0)
Scores == {0, 50, 69, 70, 80, 89, 90, 100}

RewardDecision == {"accepted", "rejected", "pending"}

\* Optional[ValidationResult] = None
NoResult == [present |-> FALSE, is_valid |-> FALSE, score |-> 0]

ValidationResult(v, s) == [present |-> TRUE, is_valid |-> v, score |-> s]

\* Optional[ImplementationSolution] = None
NoSolution ==
    [present |-> FALSE, operations |-> 0, reward_decision |-> "pending",
     validation_result |-> NoResult, description |-> "none"]

\* ImplementationSolution: operations is the length of the operation list,
\* description tells the constructions of the source apart
ImplementationSolution(n, d, vr, descr) ==
    [present |-> TRUE, operations |-> n, reward_decision |-> d,
     validation_result |-> vr, description |-> descr]

\* ImplementationSolution.update_validation_result
update_validation_result(sol, vr) == [sol EXCEPT !.validation_result = vr]

\* the requests a caller can pass: None, or a DevelopmentRequest
Requests == {"None", "request"}

Nodes ==
    {"initialize", "search_knowledge", "develop_solution",
     "validate_solution", "review_solution", "update_knowledge",
     "finalize", "handle_error"}

(* ------------------------------- state --------------------------------- *)

VARIABLES
    pc,                 \* next node of the graph; "start", "END" or "done"
    caller,             \* "none", "execute" (LowCodeWorkflow.execute) or
                        \* "graph" (the compiled graph invoked on a state)
    request,            \* LowCodeWorkflowState fields
    human_in_loop,
    max_iterations,
    current_stage,
    iteration_count,
    similar_solutions,
    current_solution,
    validation_result,
    reward_decision,
    errors,
    warnings,
    final_solution,
    workflow_completed,
    success,
    trace,              \* the nodes executed so far, in order
    search_failed,      \* the knowledge search failed inside the manager
    store_calls,        \* decisions passed to store_solution, in order
    result              \* what the caller of the run gets back

\* the state of one run of the developer's graph (LowCodeDeveloperState),
\* and of the browser tool the developer agent owns
VARIABLES
    dev_pc,             \* next node of the developer's graph; "start",
                        \* "END" (graph finished), "done" (develop returned
                        \* after it) or "raised" (the graph raised)
    error_count,        \* LowCodeDeveloperState fields
    current_operation_index,
    is_authenticated,
    checkpoints,        \* the checkpoint list: the operation_index of
                        \* each OperationCheckpoint, in order
    solution,           \* the ImplementationSolution under construction
    page,               \* the session the tool's handles point to, 0 if none
    sessions_opened,    \* browser sessions launched so far
    open_sessions,      \* the launched sessions that were not closed
    dev_visited,        \* the developer's nodes executed so far
    analysis,           \* what the last screenshot analysis of
                        \* _validate_result returned
    dev_request,        \* request_id of the request given to develop()
    returned,           \* the solution develop() returned
    last_step,          \* the last step of _execute_operations: the
                        \* operation index it found and what happened
    login_attempts      \* runs of _authenticate that did not return at
                        \* once: attempts to initialize and log in

workflow_vars ==
    <<pc, caller, request, human_in_loop, max_iterations, current_stage,
      iteration_count, similar_solutions, current_solution,
      validation_result, reward_decision, errors, warnings, final_solution,
      workflow_completed, success, trace, search_failed, store_calls,
      result>>

developer_vars ==
    <<dev_pc, error_count, current_operation_index, is_authenticated,
      checkpoints, solution, page, sessions_opened, open_sessions,
      dev_visited, analysis, dev_request, returned, last_step,
      login_attempts>>

\* the state of one run of the validator's graph (ValidationState), and of
\* the browser the validator agent owns
VARIABLES
    val_pc,             \* next node of the validator's graph; "start",
                        \* "END" (graph finished) or "done" (validate returned)
    val_error_count,    \* ValidationState.error_count
    current_test_index,
    test_scenarios,     \* the generated scenarios, each well formed or not
    test_results,       \* the "success" entry of each recorded test result
    validator_result,   \* ValidationState.validation_result
    val_browser         \* "none", "open" or "closed"

validator_vars ==
    <<val_pc, val_error_count, current_test_index, test_scenarios,
      test_results, validator_result, val_browser>>

\* developer runs that go on at the same time: every run calls develop()
\* on the one module-level low_code_developer_agent, whose browser tool
\* (self.operations.browser) they therefore have in common
VARIABLES
    run_pc,             \* per run: next node of the developer's graph
    run_plan,           \* per run: number of planned operations
    run_index,          \* per run: current_operation_index
    run_errors,         \* per run: error_count
    run_session,        \* per run: the session its authentication launched
    tool_page,          \* the session the tool's handles point to, 0 if none
    tool_launched,      \* sessions launched by the tool so far
    tool_open,          \* the launched sessions that were not closed
    interference        \* what a run did to a session another run was using

shared_vars ==
    <<run_pc, run_plan, run_index, run_errors, run_session, tool_page,
      tool_launched, tool_open, interference>>

\* the knowledge manager: the solution objects its callers hold, what the
\* KnowledgeStore keeps, and what was handed to the store's other methods
VARIABLES
    objects,            \* per solution id: the ImplementationSolution object
    table,              \* per solution id: the row of implementation_solutions
    entries,            \* knowledge entries written by store_knowledge_entry
    transactions,       \* RewardTransactions handed to store_reward_transaction
    versions,           \* VersionInfos handed to store_version
    writes,             \* the calls of KnowledgeStore.store_solution
    km_calls,           \* calls of the manager's methods so far
    last_call           \* the last of them: method, arguments, result

knowledge_vars ==
    <<objects, table, entries, transactions, versions, writes, km_calls,
      last_call>>

\* one search of the knowledge manager for similar solutions
VARIABLES
    search_request,     \* the request searched for: title and description
    candidates,         \* the solutions KnowledgeStore.search_solutions gave
    search_result       \* what search_similar_solutions returned

search_vars == <<search_request, candidates, search_result>>

\* one parse of a model response
VARIABLES
    content,            \* the response text handed to the parser
    parse_result        \* which parser ran and what it returned

parse_vars == <<content, parse_result>>

vars ==
    <<workflow_vars, developer_vars, validator_vars, shared_vars,
      knowledge_vars, search_vars, parse_vars>>

\* what a step of one part leaves alone: the variables of the other parts
other_than_workflow ==
    <<developer_vars, validator_vars, shared_vars, knowledge_vars,
      search_vars, parse_vars>>

other_than_developer ==
    <<workflow_vars, validator_vars, shared_vars, knowledge_vars,
      search_vars, parse_vars>>

other_than_validator ==
    <<workflow_vars, developer_vars, shared_vars, knowledge_vars,
      search_vars, parse_vars>>

other_than_shared ==
    <<workflow_vars, developer_vars, validator_vars, knowledge_vars,
      search_vars, parse_vars>>

other_than_knowledge ==
    <<workflow_vars, developer_vars, validator_vars, shared_vars,
      search_vars, parse_vars>>

other_than_search ==
    <<workflow_vars, developer_vars, validator_vars, shared_vars,
      knowledge_vars, parse_vars>>

other_than_parse ==
    <<workflow_vars, developer_vars, validator_vars, shared_vars,
      knowledge_vars, search_vars>>

NoReturn == [kind |-> "none", solution |-> NoSolution]

Last(s) == s[Len(s)]

\* LowCodeOperation.success: Optional[bool] = None
OperationSuccess == {"None", "True", "False"}

\* ImplementationSolution.success_rate as numerator and denominator; the
\* field default 0.0 is <<0, 1>>
ZeroRate == <<0, 1>>

\* no screenshot analysis was made
NoAnalysis == [present |-> FALSE, is_success |-> FALSE, confidence_score |-> 0]

\* DevelopmentRequest.request_id of the requests given to develop()
RequestIds == {"r1", "r2"}

\* the solution develop() puts into the initial LowCodeDeveloperState
developer_solution ==
    [request_id |-> "", operations |-> <<>>, validation_result |-> NoResult,
     reward_decision |-> "pending", success_rate |-> ZeroRate]

\* develop() has not returned
NothingReturned == [kind |-> "none", request_id |-> "", reward_decision |-> ""]

\* _execute_operations has not run
NoStep == [index |-> 0, outcome |-> "none"]

\* LowCodeDeveloperState defaults, and a browser tool that launched nothing
developer_init ==
    /\ dev_pc = "start"
    /\ error_count = 0
    /\ current_operation_index = 0
    /\ is_authenticated = FALSE
    /\ checkpoints = <<>>
    /\ solution = developer_solution
    /\ page = 0
    /\ sessions_opened = 0
    /\ open_sessions = {}
    /\ dev_visited = {}
    /\ analysis = NoAnalysis
    /\ dev_request = ""
    /\ returned = NothingReturned
    /\ last_step = NoStep
    /\ login_attempts = 0

\* the ValidationResult validate() puts into the initial ValidationState:
\* is_valid False, score at its default 0.0
validator_initial_result ==
    [is_valid |-> FALSE, score |-> ZeroRate, issues |-> <<>>]

\* ValidationState defaults, and a browser that was never started
validator_init ==
    /\ val_pc = "start"
    /\ val_error_count = 0
    /\ current_test_index = 0
    /\ test_scenarios = <<>>
    /\ test_results = <<>>
    /\ validator_result = validator_initial_result
    /\ val_browser = "none"

\* the runs going on at the same time
Runs == 1..MaxRuns

\* no run has started; the shared tool launched nothing
shared_init ==
    /\ run_pc = [r \in Runs |-> "start"]
    /\ run_plan = [r \in Runs |-> 0]
    /\ run_index = [r \in Runs |-> 0]
    /\ run_errors = [r \in Runs |-> 0]
    /\ run_session = [r \in Runs |-> 0]
    /\ tool_page = 0
    /\ tool_launched = 0
    /\ tool_open = {}
    /\ interference = {}

\* the solutions the knowledge manager is called with
SolutionIds == {"s1", "s2"}

\* no solution object, no row
NoObject ==
    [present |-> FALSE, reward_decision |-> "pending", success_rate |-> 0,
     age |-> 0, version |-> 1]

\* no call was made
NoCall ==
    [op |-> "none", id |-> "none", decision |-> "pending", days |-> 0,
     returned |-> FALSE, existed |-> FALSE, rate_before |-> 0,
     rate_after |-> 0]

\* an empty store and no solution objects
knowledge_init ==
    /\ objects = [id \in SolutionIds |-> NoObject]
    /\ table = [id \in SolutionIds |-> NoObject]
    /\ entries = <<>>
    /\ transactions = <<>>
    /\ versions = <<>>
    /\ writes = <<>>
    /\ km_calls = 0
    /\ last_call = NoCall

\* no search was made
NoSearch == [called |-> FALSE, failed |-> FALSE, ranked |-> <<>>]

search_init ==
    /\ search_request = [title |-> {}, description |-> {}]
    /\ candidates = <<>>
    /\ search_result = NoSearch

parse_init ==
    /\ content = <<>>
    /\ parse_result = [parser |-> "none", value |-> "none"]

Init ==
    /\ pc = "start"
    /\ caller = "none"
    /\ request = "None"
    /\ human_in_loop = TRUE
    /\ max_iterations = default_max_iterations
    /\ current_stage = "initialization"
    /\ iteration_count = 0
    /\ similar_solutions = 0
    /\ current_solution = NoSolution
    /\ validation_result = NoResult
    /\ reward_decision = "pending"
    /\ errors = <<>>
    /\ warnings = <<>>
    /\ final_solution = NoSolution
    /\ workflow_completed = FALSE
    /\ success = FALSE
    /\ trace = <<>>
    /\ search_failed = FALSE
    /\ store_calls = <<>>
    /\ result = NoReturn
    /\ developer_init
    /\ validator_init
    /\ shared_init
    /\ knowledge_init
    /\ search_init
    /\ parse_init

(* ------------------- what the agents hand back ------------------------- *)

\* ValidationResults the developer's _validate_result leaves on its
\* solution: valid when an indicator matched or confidence > 0.7, so an
\* invalid one has confidence <= 0.7; None when that node never ran
dev_validation_results ==
    {NoResult, ValidationResult(TRUE, 50), ValidationResult(TRUE, 80),
     ValidationResult(FALSE, 50)}

\* decisions _finalize_solution can leave on a solution of n operations:
\* valid and success_rate >= 0.8 is accepted (needs an operation), valid
\* and below is pending, everything else, and its except branch, rejected
dev_decisions(n, vr) ==
    IF vr.present /\ vr.is_valid
    THEN IF n > 0 THEN {"accepted", "pending", "rejected"}
                  ELSE {"pending", "rejected"}
    ELSE {"rejected"}

\* LowCodeDeveloperAgent.develop(request): with request None both the try
\* block and the except block read request.request_id, so the call raises;
\* otherwise it returns the solution of the graph run or a rejected one
\* with no operations
develop_outcomes(req) ==
    IF req = "None"
    THEN {[raised |-> TRUE, solution |-> NoSolution]}
    ELSE {[raised |-> FALSE,
           solution |-> ImplementationSolution(t[1], t[3], t[2], "generated")] :
             t \in {u \in (0..MaxOps) \X dev_validation_results
                                      \X RewardDecision :
                       u[3] \in dev_decisions(u[1], u[2])}}
         \cup {[raised |-> FALSE,
                solution |-> ImplementationSolution(0, "rejected", NoResult,
                                                    "develop_failed")]}

\* FunctionValidatorAgent.validate(solution): every exception is caught,
\* a ValidationResult is always returned
validate_outcomes ==
    {ValidationResult(v, s) : v \in BOOLEAN, s \in Scores}

\* search_similar_solutions without its try/except: a failure inside the
\* manager reaches _search_knowledge as an exception
search_outcomes_uncaught(req) ==
    {[raised |-> TRUE, failed |-> TRUE, found |-> 0]} \cup
    IF req = "None" THEN {}
    ELSE {[raised |-> FALSE, failed |-> FALSE, found |-> k] :
            k \in 0..MaxSimilar}

\* KnowledgeManagerAgent.search_similar_solutions(request): failed tells
\* whether keyword extraction, the store query or the ranking raised (a
\* None request always fails, on request.title); the manager catches it
\* and returns []
search_outcomes(req) ==
    {[raised |-> FALSE, failed |-> TRUE, found |-> 0]} \cup
    IF req = "None" THEN {}
    ELSE {[raised |-> FALSE, failed |-> FALSE, found |-> k] :
            k \in 0..MaxSimilar}

\* KnowledgeManagerAgent.store_solution: True, or False when anything
\* inside raised; it sets solution.reward_decision first
store_outcomes == BOOLEAN

(* ---------------------- decisions and edges ---------------------------- *)

\* _review_solution with the middle band opened at its lower end
\* (score > 0.7 instead of score >= 0.7)
review_decision_open_band(vr, it, mi, hil) ==
    IF vr.is_valid /\ vr.score >= auto_accept_threshold
    THEN "accepted"
    ELSE IF vr.is_valid /\ vr.score > review_threshold
         THEN IF hil THEN "pending" ELSE "accepted"
         ELSE IF it < mi THEN "pending" ELSE "rejected"

\* the decision logic of _review_solution
review_decision(vr, it, mi, hil) ==
    IF vr.is_valid /\ vr.score >= auto_accept_threshold
    THEN "accepted"
    ELSE IF vr.is_valid /\ vr.score >= review_threshold
         THEN IF hil THEN "pending" ELSE "accepted"
         ELSE IF it < mi THEN "pending" ELSE "rejected"

\* _after_development asking for the operations before the errors
after_development_retries_first(errs, sol, it, mi) ==
    IF ~sol.present \/ sol.operations = 0
    THEN IF it < mi THEN "develop_solution" ELSE "handle_error"
    ELSE IF errs # <<>> THEN "handle_error"
         ELSE "validate_solution"

\* _after_development, with the node each label is wired to
after_development(errs, sol, it, mi) ==
    IF errs # <<>> THEN "handle_error"
    ELSE IF ~sol.present \/ sol.operations = 0
         THEN IF it < mi THEN "develop_solution" ELSE "handle_error"
         ELSE "validate_solution"

\* _after_validation, with the node each label is wired to
after_validation(errs, vr) ==
    IF errs # <<>> THEN "handle_error"
    ELSE IF ~vr.present THEN "handle_error"
         ELSE "review_solution"

\* _after_review with the pending label wired like the accept label
after_review_pending_stored(rd) ==
    IF rd = "rejected" THEN "develop_solution" ELSE "update_knowledge"

\* _after_review, with the node each label is wired to
after_review(rd) ==
    IF rd = "accepted" THEN "update_knowledge"
    ELSE IF rd = "rejected" THEN "develop_solution"
         ELSE "finalize"

(* ------------------------------ entry ---------------------------------- *)

\* LowCodeWorkflow.execute up to the graph invocation. With request None
\* the log line of the try block raises on request.title, and the except
\* block raises again on request.request_id: the exception reaches the
\* caller. Otherwise the initial state takes the defaults of the state
\* class and the graph starts.
execute(req, hil) ==
    /\ pc = "start"
    /\ caller' = "execute"
    /\ IF req = "None"
       THEN /\ pc' = "done"
            /\ result' = [kind |-> "raised", solution |-> NoSolution]
            /\ UNCHANGED <<request, human_in_loop>>
       ELSE /\ pc' = "initialize"
            /\ request' = req
            /\ human_in_loop' = hil
            /\ UNCHANGED result
    /\ UNCHANGED <<max_iterations, current_stage, iteration_count,
                   similar_solutions, current_solution, validation_result,
                   reward_decision, errors, warnings, final_solution,
                   workflow_completed, success, trace, search_failed,
                   store_calls>>

\* the compiled graph invoked on a LowCodeWorkflowState built by the
\* caller: any request, any human_in_loop, any max_iterations >= 1
ainvoke(req, hil, mi) ==
    /\ pc = "start"
    /\ caller' = "graph"
    /\ pc' = "initialize"
    /\ request' = req
    /\ human_in_loop' = hil
    /\ max_iterations' = mi
    /\ UNCHANGED <<current_stage, iteration_count, similar_solutions,
                   current_solution, validation_result, reward_decision,
                   errors, warnings, final_solution, workflow_completed,
                   success, trace, search_failed, store_calls, result>>

(* ------------------------------ nodes ---------------------------------- *)

\* a node runs: the graph is at it and the run is within the model's bound
at(node) == pc = node /\ Len(trace) < MaxSteps

\* _initialize; the edge initialize -> search_knowledge is unconditional
initialize ==
    /\ at("initialize")
    /\ trace' = Append(trace, "initialize")
    /\ current_stage' = "initialization"
    /\ errors' = IF request = "None" THEN Append(errors, "missing_request")
                                     ELSE errors
    /\ pc' = "search_knowledge"
    /\ UNCHANGED <<caller, request, human_in_loop, max_iterations,
                   iteration_count, similar_solutions, current_solution,
                   validation_result, reward_decision, warnings,
                   final_solution, workflow_completed, success,
                   search_failed, store_calls, result>>

\* _search_knowledge; the edge search_knowledge -> develop_solution is
\* unconditional
search_knowledge ==
    /\ at("search_knowledge")
    /\ trace' = Append(trace, "search_knowledge")
    /\ current_stage' = "knowledge_search"
    /\ \E o \in search_outcomes(request) :
         /\ search_failed' = o.failed
         /\ IF o.raised
            THEN /\ errors' = Append(errors, "search_exception")
                 /\ UNCHANGED <<similar_solutions, warnings>>
            ELSE /\ similar_solutions' = o.found
                 /\ warnings' = IF o.found > 0
                                THEN Append(warnings, "similar_found")
                                ELSE warnings
                 /\ UNCHANGED errors
    /\ pc' = "develop_solution"
    /\ UNCHANGED <<caller, request, human_in_loop, max_iterations,
                   iteration_count, current_solution, validation_result,
                   reward_decision, final_solution, workflow_completed,
                   success, store_calls, result>>

\* _develop_solution and the conditional edge _after_development
develop_solution ==
    /\ at("develop_solution")
    /\ trace' = Append(trace, "develop_solution")
    /\ current_stage' = "development"
    /\ iteration_count' = iteration_count + 1
    /\ \E o \in develop_outcomes(request) :
         IF o.raised
         THEN /\ errors' = Append(errors, "develop_exception")
              /\ UNCHANGED current_solution
         ELSE /\ current_solution' = o.solution
              /\ errors' = IF o.solution.present /\ o.solution.operations > 0
                           THEN errors
                           ELSE Append(errors, "develop_failed")
    /\ pc' = after_development(errors', current_solution', iteration_count',
                               max_iterations)
    /\ UNCHANGED <<caller, request, human_in_loop, max_iterations,
                   similar_solutions, validation_result, reward_decision,
                   warnings, final_solution, workflow_completed, success,
                   search_failed, store_calls, result>>

\* _validate_solution and the conditional edge _after_validation
validate_solution ==
    /\ at("validate_solution")
    /\ trace' = Append(trace, "validate_solution")
    /\ current_stage' = "validation"
    /\ IF ~current_solution.present
       THEN /\ errors' = Append(errors, "no_solution_to_validate")
            /\ UNCHANGED <<validation_result, current_solution>>
       ELSE /\ \E vr \in validate_outcomes :
                 /\ validation_result' = vr
                 /\ current_solution' =
                        update_validation_result(current_solution, vr)
            /\ UNCHANGED errors
    /\ pc' = after_validation(errors', validation_result')
    /\ UNCHANGED <<caller, request, human_in_loop, max_iterations,
                   iteration_count, similar_solutions, reward_decision,
                   warnings, final_solution, workflow_completed, success,
                   search_failed, store_calls, result>>

\* _review_solution and the conditional edge _after_review
review_solution ==
    /\ at("review_solution")
    /\ trace' = Append(trace, "review_solution")
    /\ current_stage' = "review"
    /\ IF ~current_solution.present \/ ~validation_result.present
       THEN /\ errors' = Append(errors, "missing_solution_or_result")
            /\ UNCHANGED reward_decision
       ELSE /\ reward_decision' =
                   review_decision(validation_result, iteration_count,
                                   max_iterations, human_in_loop)
            /\ UNCHANGED errors
    /\ pc' = after_review(reward_decision')
    /\ UNCHANGED <<caller, request, human_in_loop, max_iterations,
                   iteration_count, similar_solutions, current_solution,
                   validation_result, warnings, final_solution,
                   workflow_completed, success, search_failed, store_calls,
                   result>>

\* _update_knowledge; store_solution writes the decision onto the solution
\* object before anything in it can fail; the edge to finalize is
\* unconditional
update_knowledge ==
    /\ at("update_knowledge")
    /\ trace' = Append(trace, "update_knowledge")
    /\ current_stage' = "knowledge_update"
    /\ IF ~current_solution.present
       THEN /\ errors' = Append(errors, "no_solution_to_store")
            /\ UNCHANGED <<current_solution, store_calls, warnings>>
       ELSE /\ store_calls' = Append(store_calls, reward_decision)
            /\ current_solution' =
                   [current_solution EXCEPT !.reward_decision = reward_decision]
            /\ \E ok \in store_outcomes :
                 warnings' = IF ok THEN warnings
                                   ELSE Append(warnings, "store_failed")
            /\ UNCHANGED errors
    /\ pc' = "finalize"
    /\ UNCHANGED <<caller, request, human_in_loop, max_iterations,
                   iteration_count, similar_solutions, validation_result,
                   reward_decision, final_solution, workflow_completed,
                   success, search_failed, result>>

\* the test of _finalize tightened to runs that recorded no problem
finalize_success_clean_run(sol, rd) ==
    sol.present /\ rd # "rejected" /\ warnings = <<>> /\ errors = <<>>

\* the test of _finalize that makes the current solution the final one
finalize_success(sol, rd) ==
    sol.present /\ rd # "rejected"

\* _finalize; the edge finalize -> END
finalize ==
    /\ at("finalize")
    /\ trace' = Append(trace, "finalize")
    /\ current_stage' = "completion"
    /\ workflow_completed' = TRUE
    /\ IF finalize_success(current_solution, reward_decision)
       THEN /\ final_solution' = current_solution
            /\ success' = TRUE
       ELSE /\ success' = FALSE
            /\ UNCHANGED final_solution
    /\ pc' = "END"
    /\ UNCHANGED <<caller, request, human_in_loop, max_iterations,
                   iteration_count, similar_solutions, current_solution,
                   validation_result, reward_decision, errors, warnings,
                   search_failed, store_calls, result>>

\* _handle_error; the edge handle_error -> finalize is unconditional
handle_error ==
    /\ at("handle_error")
    /\ trace' = Append(trace, "handle_error")
    /\ workflow_completed' = TRUE
    /\ success' = FALSE
    /\ pc' = "finalize"
    /\ UNCHANGED <<caller, request, human_in_loop, max_iterations,
                   current_stage, iteration_count, similar_solutions,
                   current_solution, validation_result, reward_decision,
                   errors, warnings, final_solution, search_failed,
                   store_calls, result>>

(* ------------------------------ return --------------------------------- *)

\* the solution execute returns from the final state: final_solution, else
\* current_solution, else a rejected one built on the spot
returned_solution(final, current) ==
    IF final.present THEN final
    ELSE IF current.present THEN current
         ELSE ImplementationSolution(0, "rejected", NoResult,
                                     "workflow_failed")

\* LowCodeWorkflow.execute after the graph invocation
execute_return ==
    /\ pc = "END"
    /\ caller = "execute"
    /\ pc' = "done"
    /\ result' = [kind |-> "solution",
                  solution |-> returned_solution(final_solution,
                                                 current_solution)]
    /\ UNCHANGED <<caller, request, human_in_loop, max_iterations,
                   current_stage, iteration_count, similar_solutions,
                   current_solution, validation_result, reward_decision,
                   errors, warnings, final_solution, workflow_completed,
                   success, trace, search_failed, store_calls>>

\* the graph invocation hands the final state back to its caller
ainvoke_return ==
    /\ pc = "END"
    /\ caller = "graph"
    /\ pc' = "done"
    /\ result' = [kind |-> "state", solution |-> final_solution]
    /\ UNCHANGED <<caller, request, human_in_loop, max_iterations,
                   current_stage, iteration_count, similar_solutions,
                   current_solution, validation_result, reward_decision,
                   errors, warnings, final_solution, workflow_completed,
                   success, trace, search_failed, store_calls>>

Next ==
    \/ /\ \E req \in Requests, hil \in BOOLEAN : execute(req, hil)
       /\ UNCHANGED other_than_workflow
    \/ /\ \E req \in Requests, hil \in BOOLEAN, mi \in 1..MaxIterCfg :
            ainvoke(req, hil, mi)
       /\ UNCHANGED other_than_workflow
    \/ initialize /\ UNCHANGED other_than_workflow
    \/ search_knowledge /\ UNCHANGED other_than_workflow
    \/ develop_solution /\ UNCHANGED other_than_workflow
    \/ validate_solution /\ UNCHANGED other_than_workflow
    \/ review_solution /\ UNCHANGED other_than_workflow
    \/ update_knowledge /\ UNCHANGED other_than_workflow
    \/ finalize /\ UNCHANGED other_than_workflow
    \/ handle_error /\ UNCHANGED other_than_workflow
    \/ execute_return /\ UNCHANGED other_than_workflow
    \/ ainvoke_return /\ UNCHANGED other_than_workflow

Spec == Init /\ [][Next]_vars

(* ----------------- the developer's graph (one run) --------------------- *)
(* src/src/agents/low_code_developer.py: the graph of                      *)
(* LowCodeDeveloperAgent._build_graph, run by develop() on a fresh         *)
(* LowCodeDeveloperState.  The language model, the vision service and the  *)
(* browser appear through what their calls can return or raise.            *)

\* the literal 0.7 of _validate_result
dev_confidence_threshold == 70

\* the literal 0.8 of _finalize_solution
accept_rate == 80

\* confidence scores a screenshot analysis can carry
Confidences == {50, 70, 85}

DevNodes ==
    {"analyze_request", "plan_implementation", "authenticate",
     "execute_operations", "validate_result", "handle_error",
     "finalize_solution"}

\* a failed login is retried once more after the budget is used up
should_continue_after_auth_one_more(auth, ec) ==
    IF auth THEN "execute_operations"
    ELSE IF ec <= max_errors_dev THEN "authenticate"
    ELSE "handle_error"

\* _should_continue_after_auth
should_continue_after_auth(auth, ec) ==
    IF auth THEN "execute_operations"
    ELSE IF ec < max_errors_dev THEN "authenticate"
    ELSE "handle_error"

\* the execution loop stops only above the budget
should_continue_execution_late(ec, idx, n) ==
    IF ec > max_errors_dev THEN "handle_error"
    ELSE IF idx >= n THEN "validate_result"
    ELSE "execute_operations"

\* _should_continue_execution; n is len(state.solution.operations)
should_continue_execution(ec, idx, n) ==
    IF ec >= max_errors_dev THEN "handle_error"
    ELSE IF idx >= n THEN "validate_result"
    ELSE "execute_operations"

\* _should_continue_after_validation
should_continue_after_validation(ec, vr) ==
    IF ec >= max_errors_dev THEN "handle_error"
    ELSE IF vr.present /\ vr.is_valid THEN "finalize_solution"
    ELSE IF ec < max_errors_dev \div 2 THEN "execute_operations"
    ELSE "handle_error"

\* the verdict of _validate_result on a screenshot analysis
validation_of(is_success, confidence) ==
    ValidationResult(is_success \/ confidence > dev_confidence_threshold,
                     confidence)

\* counts every operation that is not recorded as failed
successful_operations_not_failed(ops) ==
    Cardinality({i \in 1..Len(ops) : ops[i] # "False"})

\* _finalize_solution: sum(1 for op in operations if op.success is True)
successful_operations(ops) ==
    Cardinality({i \in 1..Len(ops) : ops[i] = "True"})

\* _finalize_solution: the success rate, 0.0 without operations
success_rate(ops) ==
    IF Len(ops) > 0 THEN <<successful_operations(ops), Len(ops)>>
    ELSE ZeroRate

\* rate >= h / 100, for a rate <<numerator, denominator>>
rate_at_least(rate, h) == rate[1] * 100 >= h * rate[2]

\* the decision follows the success rate alone
finalize_decision_ignores_validation(vr, rate) ==
    IF rate_at_least(rate, accept_rate) THEN "accepted" ELSE "rejected"

\* a valid solution is accepted whatever its success rate
finalize_decision_no_pending(vr, rate) ==
    IF vr.present /\ vr.is_valid THEN "accepted" ELSE "rejected"

\* _finalize_solution: the reward decision
finalize_decision(vr, rate) ==
    IF vr.present /\ vr.is_valid
    THEN IF rate_at_least(rate, accept_rate) THEN "accepted" ELSE "pending"
    ELSE "rejected"

\* develop(): builds the initial state and invokes the graph
develop ==
    /\ dev_pc = "start"
    /\ \E id \in RequestIds :
         /\ dev_request' = id
         /\ solution' = [developer_solution EXCEPT !.request_id = id]
    /\ dev_pc' = "analyze_request"
    /\ UNCHANGED <<error_count, current_operation_index, is_authenticated,
                   checkpoints, page, sessions_opened, open_sessions,
                   dev_visited, analysis, returned, last_step,
                   login_attempts>>

\* _analyze_request: the language-model call can raise
analyze_request ==
    /\ dev_pc = "analyze_request"
    /\ dev_visited' = dev_visited \cup {"analyze_request"}
    /\ \E raised \in BOOLEAN :
         error_count' = IF raised THEN error_count + 1 ELSE error_count
    /\ dev_pc' = "plan_implementation"
    /\ UNCHANGED <<current_operation_index, is_authenticated, checkpoints,
                   solution, page, sessions_opened, open_sessions, analysis,
                   dev_request, returned, last_step,
                   login_attempts>>

\* _plan_implementation: appends one operation (success None) per planned
\* operation; it can raise after any number of them
plan_implementation ==
    /\ dev_pc = "plan_implementation"
    /\ dev_visited' = dev_visited \cup {"plan_implementation"}
    /\ \E n \in 0..MaxOps, raised \in BOOLEAN :
         /\ solution' = [solution EXCEPT
                           !.operations = [i \in 1..n |-> "None"]]
         /\ error_count' = IF raised THEN error_count + 1 ELSE error_count
    /\ dev_pc' = "authenticate"
    /\ UNCHANGED <<current_operation_index, is_authenticated, checkpoints,
                   page, sessions_opened, open_sessions, analysis,
                   dev_request, returned, last_step,
                   login_attempts>>

\* what one attempt of _authenticate can do: operations.initialize()
\* launches a browser or fails to (PlaywrightAutomation.start_browser);
\* after a launch the navigation, the credentials or the login can fail
authenticate_outcomes ==
    {[launched |-> FALSE, logged_in |-> FALSE],
     [launched |-> TRUE, logged_in |-> FALSE],
     [launched |-> TRUE, logged_in |-> TRUE]}

\* _authenticate and the conditional edge after it
authenticate ==
    /\ dev_pc = "authenticate"
    /\ dev_visited' = dev_visited \cup {"authenticate"}
    /\ IF is_authenticated
       THEN UNCHANGED <<is_authenticated, error_count, page,
                        sessions_opened, open_sessions, login_attempts>>
       ELSE \E o \in authenticate_outcomes :
              /\ login_attempts' = login_attempts + 1
              /\ IF o.launched
                 THEN /\ sessions_opened' = sessions_opened + 1
                      /\ page' = sessions_opened + 1
                      /\ open_sessions' =
                             open_sessions \cup {sessions_opened + 1}
                 ELSE UNCHANGED <<page, sessions_opened, open_sessions>>
              /\ is_authenticated' = o.logged_in
              /\ error_count' = IF o.logged_in THEN error_count
                                               ELSE error_count + 1
    /\ dev_pc' = should_continue_after_auth(is_authenticated', error_count')
    /\ UNCHANGED <<current_operation_index, checkpoints, solution, analysis,
                   dev_request, returned, last_step>>

\* what executing the current operation can do: the checkpoint raises; a
\* later call raises; execute_operation returns True, returns False having
\* recorded the failure, or returns False because the target element was
\* not found (the operation's success field is then left as it was)
execution_outcomes ==
    {"checkpoint_raised", "raised", "True", "False", "not_found"}

\* the outcomes in which execute_operation was called on the operation
attempt_outcomes == {"True", "False", "not_found"}

\* an operation whose target was not found is stepped over
operation_step_advances_unfound(idx, ec, o) ==
    IF o \in {"True", "not_found"} THEN <<idx + 1, ec>>
    ELSE <<idx, ec + 1>>

\* a failed operation is stepped over
operation_step_skips_failed(idx, ec, o) ==
    IF o = "True" THEN <<idx + 1, ec>> ELSE <<idx + 1, ec + 1>>

\* _execute_operations: the operation index and the error count after a
\* step whose outcome is o
operation_step(idx, ec, o) ==
    IF o = "True" THEN <<idx + 1, ec>> ELSE <<idx, ec + 1>>

\* the checkpoint is kept only when the operation succeeded
checkpoints_after_success_only(cps, idx, o) ==
    IF o = "True" THEN Append(cps, idx) ELSE cps

\* _execute_operations: the checkpoint list after a step on operation idx;
\* create_checkpoint comes before everything else and raises on failure
checkpoints_after(cps, idx, o) ==
    IF o = "checkpoint_raised" THEN cps ELSE Append(cps, idx)

\* _execute_operations and the conditional edge after it
execute_operations ==
    /\ dev_pc = "execute_operations"
    /\ dev_visited' = dev_visited \cup {"execute_operations"}
    /\ IF current_operation_index >= Len(solution.operations)
       THEN /\ last_step' = [index |-> current_operation_index,
                             outcome |-> "past_end"]
            /\ UNCHANGED <<current_operation_index, error_count,
                           checkpoints, solution>>
       ELSE \E o \in execution_outcomes :
              /\ last_step' = [index |-> current_operation_index,
                               outcome |-> o]
              /\ checkpoints' =
                     checkpoints_after(checkpoints,
                                       current_operation_index, o)
              /\ solution' =
                   IF o \in {"True", "False"}
                   THEN [solution EXCEPT
                           !.operations[current_operation_index + 1] = o]
                   ELSE solution
              /\ current_operation_index' =
                     operation_step(current_operation_index,
                                    error_count, o)[1]
              /\ error_count' =
                     operation_step(current_operation_index,
                                    error_count, o)[2]
    /\ dev_pc' = should_continue_execution(error_count',
                     current_operation_index', Len(solution'.operations))
    /\ UNCHANGED <<is_authenticated, page, sessions_opened, open_sessions,
                   analysis, dev_request, returned, login_attempts>>

\* _validate_result and the conditional edge after it: the screenshot
\* analysis raises, or returns whether a success indicator is among its
\* suggestions and a confidence score
validate_result ==
    /\ dev_pc = "validate_result"
    /\ dev_visited' = dev_visited \cup {"validate_result"}
    /\ \/ /\ error_count' = error_count + 1
          /\ analysis' = NoAnalysis
          /\ UNCHANGED solution
       \/ \E is_success \in BOOLEAN, confidence \in Confidences :
            /\ analysis' = [present |-> TRUE, is_success |-> is_success,
                            confidence_score |-> confidence]
            /\ solution' = [solution EXCEPT !.validation_result =
                                validation_of(is_success, confidence)]
            /\ UNCHANGED error_count
    /\ dev_pc' = should_continue_after_validation(error_count',
                     solution'.validation_result)
    /\ UNCHANGED <<current_operation_index, is_authenticated, checkpoints,
                   page, sessions_opened, open_sessions, dev_request,
                   returned, last_step,
                   login_attempts>>

\* _handle_error; the edge handle_error -> finalize_solution is
\* unconditional
developer_handle_error ==
    /\ dev_pc = "handle_error"
    /\ dev_visited' = dev_visited \cup {"handle_error"}
    /\ IF error_count >= max_errors_dev
       THEN /\ solution' = [solution EXCEPT !.reward_decision = "rejected"]
            /\ UNCHANGED current_operation_index
       ELSE /\ current_operation_index' =
                 IF checkpoints # <<>> /\ current_operation_index > 0
                 THEN current_operation_index - 1
                 ELSE current_operation_index
            /\ UNCHANGED solution
    /\ dev_pc' = "finalize_solution"
    /\ UNCHANGED <<error_count, is_authenticated, checkpoints, page,
                   sessions_opened, open_sessions, analysis, dev_request,
                   returned, last_step,
                   login_attempts>>

\* _finalize_solution: success rate, reward decision, and
\* operations.close(), which closes the session the tool's handles point to
finalize_solution ==
    /\ dev_pc = "finalize_solution"
    /\ dev_visited' = dev_visited \cup {"finalize_solution"}
    /\ solution' =
         [solution EXCEPT
            !.success_rate = success_rate(solution.operations),
            !.reward_decision =
                finalize_decision(solution.validation_result,
                                  success_rate(solution.operations))]
    /\ open_sessions' = open_sessions \ {page}
    /\ dev_pc' = "END"
    /\ UNCHANGED <<error_count, current_operation_index, is_authenticated,
                   checkpoints, page, sessions_opened, analysis,
                   dev_request, returned, last_step,
                   login_attempts>>

\* the failure solution is built without the request's id
failed_solution_anonymous(id) ==
    [kind |-> "failed", request_id |-> "", reward_decision |-> "rejected"]

\* develop(): the solution its except block builds
failed_solution(id) ==
    [kind |-> "failed", request_id |-> id, reward_decision |-> "rejected"]

\* develop(): the solution built when the final state holds none
fallback_solution(id) ==
    [kind |-> "fallback", request_id |-> id, reward_decision |-> "rejected"]

\* develop() returns after the graph finished: final_state.solution if
\* the object the graph library hands back has that attribute, else the
\* fallback solution
develop_return ==
    /\ dev_pc = "END"
    /\ dev_pc' = "done"
    /\ \/ returned' = [kind |-> "final", request_id |-> solution.request_id,
                       reward_decision |-> solution.reward_decision]
       \/ returned' = fallback_solution(dev_request)
    /\ UNCHANGED <<error_count, current_operation_index, is_authenticated,
                   checkpoints, solution, page, sessions_opened,
                   open_sessions, dev_visited, analysis, dev_request,
                   last_step,
                   login_attempts>>

\* graph.ainvoke raises: the nodes trap their own failures, so this is
\* the graph library stopping a run that keeps going round the one loop no
\* counter bounds, validate_result -> execute_operations; develop()
\* catches it and returns the failure solution
develop_raised ==
    /\ dev_pc \in {"execute_operations", "validate_result"}
    /\ "validate_result" \in dev_visited
    /\ dev_pc' = "raised"
    /\ returned' = failed_solution(dev_request)
    /\ UNCHANGED <<error_count, current_operation_index, is_authenticated,
                   checkpoints, solution, page, sessions_opened,
                   open_sessions, dev_visited, analysis, dev_request,
                   last_step,
                   login_attempts>>

NextDev ==
    \/ develop /\ UNCHANGED other_than_developer
    \/ analyze_request /\ UNCHANGED other_than_developer
    \/ plan_implementation /\ UNCHANGED other_than_developer
    \/ authenticate /\ UNCHANGED other_than_developer
    \/ execute_operations /\ UNCHANGED other_than_developer
    \/ validate_result /\ UNCHANGED other_than_developer
    \/ developer_handle_error /\ UNCHANGED other_than_developer
    \/ finalize_solution /\ UNCHANGED other_than_developer
    \/ develop_return /\ UNCHANGED other_than_developer
    \/ develop_raised /\ UNCHANGED other_than_developer

\* one run of the developer's graph
SpecDev == Init /\ [][NextDev]_vars

\* the same, where a node that can run does run
SpecDevFair == SpecDev /\ WF_vars(NextDev)

(* ----------------- the validator's graph (one run) --------------------- *)
(* src/src/agents/function_validator.py: the graph of                      *)
(* FunctionValidatorAgent._build_graph, run by validate() on a fresh       *)
(* ValidationState.                                                        *)

\* the literal 0.7 of _analyze_test_results
pass_rate == 70

\* a scenario the language model generated: a dict with the "name" and
\* "type" keys _execute_tests reads, or anything else
ScenarioKinds == {"well_formed", "malformed"}

\* the scenario lists of at most n scenarios
scenario_lists(n) == UNION {[1..k -> ScenarioKinds] : k \in 0..n}

\* _should_continue_testing; n is len(state.test_scenarios)
should_continue_testing(ec, idx, n) ==
    IF ec >= max_errors_val THEN "finalize_validation"
    ELSE IF idx >= n THEN "analyze_test_results"
    ELSE "execute_tests"

\* a failed step leaves the error counter as it was
tests_step_error_uncounted(idx, ec, raised) ==
    IF raised THEN [index |-> idx, errors |-> ec]
    ELSE [index |-> idx + 1, errors |-> ec]

\* _execute_tests on a scenario: the index moves on, or, when the step
\* raised, the error counter does
tests_step(idx, ec, raised) ==
    IF raised THEN [index |-> idx, errors |-> ec + 1]
    ELSE [index |-> idx + 1, errors |-> ec]

\* what _validate_test_result can say of a scenario: an indicator matched
\* and the confidence is above 0.6; an indicator matched below that; none
\* matched; the screenshot analysis raised
validation_verdicts == {"success", "low_confidence", "mismatch", "raised"}

\* _execute_test_scenario: the result of a scenario whose steps ran, one
\* of them failing (and ending the loop) or none, and whose outcome
\* _validate_test_result then judged
scenario_result(step_failed, verdict) ==
    [success |-> verdict = "success",
     steps_ok |-> ~step_failed,
     issues |-> (IF step_failed THEN <<"step_failed">> ELSE <<>>) \o
                (IF verdict = "mismatch" THEN <<"unexpected_result">>
                 ELSE IF verdict = "raised" THEN <<"validation_failed">>
                 ELSE <<>>)]

\* the results _execute_test_scenario can return: those above, and that
\* of its except block (a screenshot before or after the steps raised)
scenario_results ==
    {scenario_result(f, v) : f \in BOOLEAN, v \in validation_verdicts}
    \cup {[success |-> FALSE, steps_ok |-> ok, issues |-> <<"exception">>] :
             ok \in BOOLEAN}

RECURSIVE all_issues(_)
\* _analyze_test_results: the issues of all results, in order
all_issues(results) ==
    IF results = <<>> THEN <<>>
    ELSE all_issues(SubSeq(results, 1, Len(results) - 1)) \o
         results[Len(results)].issues

\* a result is valid from half of the scenarios on
analyzed_result_half_passes(results) ==
    LET total == Len(results)
        successful == Cardinality({i \in 1..total : results[i].success})
    IN  IF total > 0
        THEN [is_valid |-> successful * 2 >= total,
              score |-> <<successful, total>>,
              issues |-> all_issues(results)]
        ELSE [is_valid |-> FALSE, score |-> ZeroRate,
              issues |-> all_issues(results)]

\* _analyze_test_results: score, validity and issues from the recorded
\* results
analyzed_result(results) ==
    LET total == Len(results)
        successful == Cardinality({i \in 1..total : results[i].success})
    IN  IF total > 0
        THEN [is_valid |-> successful * 100 >= pass_rate * total,
              score |-> <<successful, total>>,
              issues |-> all_issues(results)]
        ELSE [is_valid |-> FALSE, score |-> ZeroRate,
              issues |-> all_issues(results)]

\* validate(): builds the initial state and invokes the graph
validate ==
    /\ val_pc = "start"
    /\ val_pc' = "analyze_solution"
    /\ UNCHANGED <<val_error_count, current_test_index, test_scenarios,
                   test_results, validator_result, val_browser>>

\* _analyze_solution: the language-model call can raise
analyze_solution ==
    /\ val_pc = "analyze_solution"
    /\ \E raised \in BOOLEAN :
         val_error_count' = IF raised THEN val_error_count + 1
                                      ELSE val_error_count
    /\ val_pc' = "generate_test_scenarios"
    /\ UNCHANGED <<current_test_index, test_scenarios, test_results,
                   validator_result, val_browser>>

\* _generate_test_scenarios: the scenarios of the parsed answer, or an
\* exception that leaves the list empty
generate_test_scenarios ==
    /\ val_pc = "generate_test_scenarios"
    /\ \/ /\ val_error_count' = val_error_count + 1
          /\ UNCHANGED test_scenarios
       \/ /\ test_scenarios' \in scenario_lists(MaxScenarios)
          /\ UNCHANGED val_error_count
    /\ val_pc' = "setup_test_environment"
    /\ UNCHANGED <<current_test_index, test_results, validator_result,
                   val_browser>>

\* _setup_test_environment: start_browser succeeds or not
setup_test_environment ==
    /\ val_pc = "setup_test_environment"
    /\ \E started \in BOOLEAN :
         /\ val_browser' = IF started THEN "open" ELSE val_browser
         /\ val_error_count' = IF started THEN val_error_count
                                          ELSE val_error_count + 1
    /\ val_pc' = "execute_tests"
    /\ UNCHANGED <<current_test_index, test_scenarios, test_results,
                   validator_result>>

\* _execute_tests and the conditional edge after it.  A malformed scenario
\* raises (its "name" or "type" is read outside any handler that could
\* supply one); a well-formed one is run by _execute_test_scenario, which
\* handles its own failures, and its result is recorded
execute_tests ==
    /\ val_pc = "execute_tests"
    /\ IF current_test_index >= Len(test_scenarios)
       THEN UNCHANGED <<current_test_index, val_error_count, test_results>>
       ELSE LET raised ==
                    test_scenarios[current_test_index + 1] = "malformed"
                after == tests_step(current_test_index, val_error_count,
                                    raised)
            IN  /\ current_test_index' = after.index
                /\ val_error_count' = after.errors
                /\ IF raised
                   THEN UNCHANGED test_results
                   ELSE \E r \in scenario_results :
                          test_results' = Append(test_results, r)
    /\ val_pc' = should_continue_testing(val_error_count',
                     current_test_index', Len(test_scenarios))
    /\ UNCHANGED <<test_scenarios, validator_result, val_browser>>

\* _analyze_test_results; the edge to generate_suggestions is unconditional
analyze_test_results ==
    /\ val_pc = "analyze_test_results"
    /\ validator_result' = analyzed_result(test_results)
    /\ val_pc' = "generate_suggestions"
    /\ UNCHANGED <<val_error_count, current_test_index, test_scenarios,
                   test_results, val_browser>>

\* _generate_suggestions: without issues no call is made; with an issue
\* the language-model call can raise
generate_suggestions ==
    /\ val_pc = "generate_suggestions"
    /\ \E raised \in BOOLEAN :
         /\ raised => validator_result.issues # <<>>
         /\ val_error_count' = IF raised THEN val_error_count + 1
                                         ELSE val_error_count
    /\ val_pc' = "finalize_validation"
    /\ UNCHANGED <<current_test_index, test_scenarios, test_results,
                   validator_result, val_browser>>

\* _finalize_validation: close_browser closes what was started
finalize_validation ==
    /\ val_pc = "finalize_validation"
    /\ val_browser' = IF val_browser = "open" THEN "closed" ELSE val_browser
    /\ val_pc' = "END"
    /\ UNCHANGED <<val_error_count, current_test_index, test_scenarios,
                   test_results, validator_result>>

\* validate() hands final_state.validation_result back to its caller
validate_return ==
    /\ val_pc = "END"
    /\ val_pc' = "done"
    /\ UNCHANGED <<val_error_count, current_test_index, test_scenarios,
                   test_results, validator_result, val_browser>>

NextVal ==
    \/ validate /\ UNCHANGED other_than_validator
    \/ analyze_solution /\ UNCHANGED other_than_validator
    \/ generate_test_scenarios /\ UNCHANGED other_than_validator
    \/ setup_test_environment /\ UNCHANGED other_than_validator
    \/ execute_tests /\ UNCHANGED other_than_validator
    \/ analyze_test_results /\ UNCHANGED other_than_validator
    \/ generate_suggestions /\ UNCHANGED other_than_validator
    \/ finalize_validation /\ UNCHANGED other_than_validator
    \/ validate_return /\ UNCHANGED other_than_validator

\* one run of the validator's graph
SpecVal == Init /\ [][NextVal]_vars

\* the same, where a node that can run does run
SpecValFair == SpecVal /\ WF_vars(NextVal)

(* --------------- developer runs at the same time ----------------------- *)
(* Each workflow run awaits low_code_developer_agent.develop(); the agent  *)
(* is one module-level object, so its LowCodePlatformOperations and the    *)
(* PlaywrightAutomation in it are the same objects in every run.  Runs     *)
(* interleave at the awaits of their nodes.  The platform and the vision   *)
(* service answer well here: the only failure is an operation on a page    *)
(* that was closed.                                                        *)

\* the run whose authentication launched session s is still using it
in_use_by_other(r, s) ==
    \E q \in Runs \ {r} :
        /\ run_session[q] = s
        /\ run_pc[q] \notin {"start", "END"}

\* run r did act on the session the tool's handles point to
touch(r, act) ==
    IF tool_page # 0 /\ in_use_by_other(r, tool_page)
    THEN interference \cup {[actor |-> r, act |-> act]}
    ELSE interference

\* develop() of run r: analysis and planning touch no browser
shared_develop(r) ==
    /\ run_pc[r] = "start"
    /\ \E n \in 1..MaxOps : run_plan' = [run_plan EXCEPT ![r] = n]
    /\ run_pc' = [run_pc EXCEPT ![r] = "authenticate"]
    /\ UNCHANGED <<run_index, run_errors, run_session, tool_page,
                   tool_launched, tool_open, interference>>

\* _authenticate of run r: operations.initialize() has start_browser
\* launch a session and point the tool's handles to it
shared_authenticate(r) ==
    /\ run_pc[r] = "authenticate"
    /\ tool_launched' = tool_launched + 1
    /\ tool_page' = tool_launched + 1
    /\ tool_open' = tool_open \cup {tool_launched + 1}
    /\ run_session' = [run_session EXCEPT ![r] = tool_launched + 1]
    /\ run_pc' = [run_pc EXCEPT ![r] =
                     should_continue_after_auth(TRUE, run_errors[r])]
    /\ UNCHANGED <<run_plan, run_index, run_errors, interference>>

\* _execute_operations of run r: execute_operation acts on the page the
\* tool's handles point to, and fails when that page was closed
shared_execute_operations(r) ==
    /\ run_pc[r] = "execute_operations"
    /\ IF run_index[r] >= run_plan[r]
       THEN UNCHANGED <<run_index, run_errors, interference>>
       ELSE IF tool_page \in tool_open
       THEN /\ run_index' = [run_index EXCEPT ![r] = @ + 1]
            /\ interference' = touch(r, "execute")
            /\ UNCHANGED run_errors
       ELSE /\ run_errors' = [run_errors EXCEPT ![r] = @ + 1]
            /\ UNCHANGED <<run_index, interference>>
    /\ run_pc' = [run_pc EXCEPT ![r] =
                     should_continue_execution(run_errors'[r],
                                               run_index'[r], run_plan[r])]
    /\ UNCHANGED <<run_plan, run_session, tool_page, tool_launched,
                   tool_open>>

\* _validate_result of run r, the analysis finding the result valid
shared_validate_result(r) ==
    /\ run_pc[r] = "validate_result"
    /\ run_pc' = [run_pc EXCEPT ![r] =
                     should_continue_after_validation(run_errors[r],
                         ValidationResult(TRUE, 85))]
    /\ UNCHANGED <<run_plan, run_index, run_errors, run_session, tool_page,
                   tool_launched, tool_open, interference>>

\* _handle_error of run r, reached here with the error budget used up
shared_handle_error(r) ==
    /\ run_pc[r] = "handle_error"
    /\ run_pc' = [run_pc EXCEPT ![r] = "finalize_solution"]
    /\ UNCHANGED <<run_plan, run_index, run_errors, run_session, tool_page,
                   tool_launched, tool_open, interference>>

\* _finalize_solution of run r: operations.close() closes the session the
\* tool's handles point to
shared_finalize_solution(r) ==
    /\ run_pc[r] = "finalize_solution"
    /\ tool_open' = tool_open \ {tool_page}
    /\ interference' = IF tool_page \in tool_open THEN touch(r, "close")
                                                  ELSE interference
    /\ run_pc' = [run_pc EXCEPT ![r] = "END"]
    /\ UNCHANGED <<run_plan, run_index, run_errors, run_session, tool_page,
                   tool_launched>>

NextShared ==
    \/ /\ \E r \in Runs : shared_develop(r)
       /\ UNCHANGED other_than_shared
    \/ /\ \E r \in Runs : shared_authenticate(r)
       /\ UNCHANGED other_than_shared
    \/ /\ \E r \in Runs : shared_execute_operations(r)
       /\ UNCHANGED other_than_shared
    \/ /\ \E r \in Runs : shared_validate_result(r)
       /\ UNCHANGED other_than_shared
    \/ /\ \E r \in Runs : shared_handle_error(r)
       /\ UNCHANGED other_than_shared
    \/ /\ \E r \in Runs : shared_finalize_solution(r)
       /\ UNCHANGED other_than_shared

\* developer runs of workflow runs going on at the same time
SpecShared == Init /\ [][NextShared]_vars

(* ------------------------ the knowledge manager ------------------------ *)
(* src/src/agents/knowledge_manager.py on top of                           *)
(* src/src/database/knowledge_store.py.  Success rates are integers in     *)
(* hundredths; a solution's age is the number of days since created_at.    *)

\* the literal 0.1 by which a success rate is raised or lowered
rate_step == 10

\* success rates and ages of the solutions handed to the manager
InitialRates == {5, 95}

Ages == {10, 100}

\* retention periods cleanup_old_solutions is called with (default 90)
RetentionDays == {90}

\* the methods class KnowledgeStore defines
KnowledgeStoreMethods ==
    {"initialize", "store_solution", "get_solution", "search_solutions",
     "store_knowledge_entry", "get_knowledge_entries", "store_evaluation",
     "store_version", "store_reward_transaction", "get_reward_criteria"}

\* a rejection costs nothing
reward_points_no_penalty(decision) ==
    IF decision = "accepted" THEN 100 ELSE 0

\* _record_reward_transaction: the points of a decision
reward_points(decision) ==
    IF decision = "accepted" THEN 100
    ELSE IF decision = "rejected" THEN 0 - 50
    ELSE 0

\* the raised rate is not capped
accepted_rate_unclamped(rate) == rate + rate_step

\* _handle_accepted_solution: min(1.0, success_rate + 0.1)
accepted_rate(rate) ==
    IF rate + rate_step > 100 THEN 100 ELSE rate + rate_step

\* _handle_rejected_solution and rollback_solution:
\* max(0.0, success_rate - 0.1)
rejected_rate(rate) ==
    IF rate - rate_step < 0 THEN 0 ELSE rate - rate_step

\* an entry is made of every solution that is not rejected
entry_allowed_unless_rejected(decision) == decision # "rejected"

\* create_knowledge_entry: only an accepted solution gives an entry
entry_allowed(decision) == decision = "accepted"

\* what the rest of create_knowledge_entry can do for an accepted
\* solution: raise before the entry is written, have
\* store_knowledge_entry fail, or write the entry
entry_outcomes == {"raised", "not_stored", "stored"}

\* the entries after create_knowledge_entry on solution id, whose object
\* is obj
entries_after(id, obj, outcome) ==
    IF entry_allowed(obj.reward_decision) /\ outcome = "stored"
    THEN Append(entries, [solution_id |-> id,
                          decision |-> obj.reward_decision])
    ELSE entries

\* the solution object after store_solution set the decision and ran the
\* handler of that decision
handled(obj, decision) ==
    [obj EXCEPT
       !.reward_decision = decision,
       !.success_rate =
           IF decision = "accepted" THEN accepted_rate(obj.success_rate)
           ELSE IF decision = "rejected" THEN rejected_rate(obj.success_rate)
           ELSE obj.success_rate]

\* a caller obtains a solution (ImplementationSolution defaults: decision
\* pending, version 1)
new_solution(id, rate, age) ==
    /\ ~objects[id].present
    /\ objects' = [objects EXCEPT ![id] =
                      [present |-> TRUE, reward_decision |-> "pending",
                       success_rate |-> rate, age |-> age, version |-> 1]]
    /\ UNCHANGED <<table, entries, transactions, versions, writes, km_calls,
                   last_call>>

\* store_solution(solution, reward_decision): the decision's handler, the
\* write of the row (which fails when the database does or when the row
\* exists already; the failure is only logged), the reward transaction
store_solution(id, decision, outcome, db_ok) ==
    /\ km_calls < MaxCalls
    /\ objects[id].present
    /\ LET obj == handled(objects[id], decision)
           ok == db_ok /\ ~table[id].present
       IN  /\ objects' = [objects EXCEPT ![id] = obj]
           /\ entries' = IF decision = "accepted"
                         THEN entries_after(id, obj, outcome)
                         ELSE entries
           /\ table' = IF ok THEN [table EXCEPT ![id] = obj] ELSE table
           /\ writes' = Append(writes, [solution_id |-> id, ok |-> ok])
           /\ transactions' =
                  Append(transactions,
                         [solution_id |-> id,
                          reward_points |-> reward_points(decision)])
           /\ last_call' =
                  [op |-> "store", id |-> id, decision |-> decision,
                   days |-> 0, returned |-> TRUE,
                   existed |-> table[id].present,
                   rate_before |-> objects[id].success_rate,
                   rate_after |-> obj.success_rate]
    /\ km_calls' = km_calls + 1
    /\ UNCHANGED versions

\* create_knowledge_entry(solution) called on its own
create_knowledge_entry(id, outcome) ==
    /\ km_calls < MaxCalls
    /\ objects[id].present
    /\ entries' = entries_after(id, objects[id], outcome)
    /\ last_call' =
           [op |-> "create_knowledge_entry", id |-> id,
            decision |-> objects[id].reward_decision, days |-> 0,
            returned |-> entry_allowed(objects[id].reward_decision)
                           /\ outcome # "raised",
            existed |-> table[id].present,
            rate_before |-> objects[id].success_rate,
            rate_after |-> objects[id].success_rate]
    /\ km_calls' = km_calls + 1
    /\ UNCHANGED <<objects, table, transactions, versions, writes>>

\* rollback_solution(solution_id): without a row it returns False; with
\* one it hands a rollback VersionInfo to store_version, changes the
\* object it loaded, and calls knowledge_store.update_solution
rollback_solution(id) ==
    /\ km_calls < MaxCalls
    /\ LET row == table[id]
           updated == [row EXCEPT
                         !.reward_decision = "rejected",
                         !.success_rate = rejected_rate(row.success_rate)]
           can_update == "update_solution" \in KnowledgeStoreMethods
       IN  /\ versions' =
                  IF row.present
                  THEN Append(versions,
                              [entity_id |-> id,
                               version_number |-> row.version + 1,
                               is_rollback |-> TRUE])
                  ELSE versions
           /\ table' = IF row.present /\ can_update
                       THEN [table EXCEPT ![id] = updated]
                       ELSE table
           /\ last_call' =
                  [op |-> "rollback", id |-> id, decision |-> "rejected",
                   days |-> 0, returned |-> row.present /\ can_update,
                   existed |-> row.present,
                   rate_before |-> row.success_rate,
                   rate_after |-> IF row.present THEN updated.success_rate
                                                 ELSE row.success_rate]
    /\ km_calls' = km_calls + 1
    /\ UNCHANGED <<objects, entries, transactions, writes>>

\* cleanup_old_solutions(retention_days): asks the store for the rows
\* older than the cutoff and deletes the rejected ones, through
\* knowledge_store.get_solutions_before_date and delete_solution
cleanup_old_solutions(days) ==
    /\ km_calls < MaxCalls
    /\ LET can_clean ==
               {"get_solutions_before_date", "delete_solution"}
                   \subseteq KnowledgeStoreMethods
           old == {id \in SolutionIds :
                       table[id].present /\ table[id].age > days}
           cleaned == {id \in old : table[id].reward_decision = "rejected"}
       IN  /\ table' = IF can_clean
                       THEN [id \in SolutionIds |->
                                IF id \in cleaned THEN NoObject
                                                  ELSE table[id]]
                       ELSE table
           /\ last_call' =
                  [op |-> "cleanup", id |-> "none", decision |-> "rejected",
                   days |-> days, returned |-> can_clean,
                   existed |-> FALSE, rate_before |-> 0, rate_after |-> 0]
    /\ km_calls' = km_calls + 1
    /\ UNCHANGED <<objects, entries, transactions, versions, writes>>

\* VersionControl._get_latest_version_number: the constant it returns
latest_version_number == 1

\* VersionControl.create_version(entity_id, ...): a VersionInfo numbered
\* one above _get_latest_version_number, handed to store_version
create_version(id) ==
    /\ km_calls < MaxCalls
    /\ versions' = Append(versions,
                          [entity_id |-> id,
                           version_number |-> latest_version_number + 1,
                           is_rollback |-> FALSE])
    /\ last_call' = [NoCall EXCEPT !.op = "create_version", !.id = id,
                                   !.returned = TRUE]
    /\ km_calls' = km_calls + 1
    /\ UNCHANGED <<objects, table, entries, transactions, writes>>

NextKM ==
    \/ /\ \E id \in SolutionIds, rate \in InitialRates, age \in Ages :
            new_solution(id, rate, age)
       /\ UNCHANGED other_than_knowledge
    \/ /\ \E id \in SolutionIds, decision \in RewardDecision,
            outcome \in entry_outcomes, db_ok \in BOOLEAN :
            store_solution(id, decision, outcome, db_ok)
       /\ UNCHANGED other_than_knowledge
    \/ /\ \E id \in SolutionIds, outcome \in entry_outcomes :
            create_knowledge_entry(id, outcome)
       /\ UNCHANGED other_than_knowledge
    \/ /\ \E id \in SolutionIds : rollback_solution(id)
       /\ UNCHANGED other_than_knowledge
    \/ /\ \E days \in RetentionDays : cleanup_old_solutions(days)
       /\ UNCHANGED other_than_knowledge
    \/ /\ \E id \in SolutionIds : create_version(id)
       /\ UNCHANGED other_than_knowledge

\* calls of the knowledge manager, in any order
SpecKM == Init /\ [][NextKM]_vars

(* ------------------- the search for similar solutions ------------------ *)
(* KnowledgeManagerAgent.search_similar_solutions: the store's candidates  *)
(* ranked by _calculate_similarity.  A text is the set of its lower-case   *)
(* words; a similarity is an exact fraction <<numerator, denominator>>.    *)

Words == {"form", "user"}

\* the requests searched for
SearchRequests ==
    {[title |-> {"form"}, description |-> d] : d \in {{}, {"user"}}}

\* the solutions the store can hand back
CandidateSolutions ==
    {[title |-> t, description |-> d, success_rate |-> r] :
        t \in {{}, {"form"}, {"form", "user"}},
        d \in {{}, {"user"}},
        r \in {50, 100}}

\* the lists of at most n candidates
candidate_lists(n) ==
    UNION {[1..k -> CandidateSolutions] : k \in 0..n}

\* _text_similarity: |intersection| / |union| of the word sets, 0.0 for
\* an empty union
text_similarity(words1, words2) ==
    IF words1 \cup words2 = {} THEN <<0, 1>>
    ELSE <<Cardinality(words1 \cap words2), Cardinality(words1 \cup words2)>>

\* _calculate_similarity:
\* (title_similarity * 0.6 + desc_similarity * 0.4) * success_rate
calculate_similarity(req, sol) ==
    LET t == text_similarity(req.title, sol.title)
        d == text_similarity(req.description, sol.description)
    IN  <<(6 * t[1] * d[2] + 4 * d[1] * t[2]) * sol.success_rate,
          10 * t[2] * d[2] * 100>>

\* a < b for fractions with positive denominators
less_than(a, b) == a[1] * b[2] < b[1] * a[2]

\* x goes before the entries it ties with
insert_before_ties(sorted, x) ==
    LET before == {i \in 1..Len(sorted) : less_than(x[2], sorted[i][2])}
        k == Cardinality(before)
    IN  SubSeq(sorted, 1, k) \o <<x>> \o SubSeq(sorted, k + 1, Len(sorted))

\* where list.sort(key, reverse=True) puts a later element x among the
\* earlier ones, already sorted: behind every entry that is not smaller
insert_by_score(sorted, x) ==
    LET before == {i \in 1..Len(sorted) : ~less_than(sorted[i][2], x[2])}
        k == Cardinality(before)
    IN  SubSeq(sorted, 1, k) \o <<x>> \o SubSeq(sorted, k + 1, Len(sorted))

RECURSIVE sort_descending(_)
\* scored_solutions.sort(key=lambda x: x[1], reverse=True): a stable sort
sort_descending(scored) ==
    IF scored = <<>> THEN <<>>
    ELSE insert_by_score(sort_descending(SubSeq(scored, 1, Len(scored) - 1)),
                         scored[Len(scored)])

\* _rank_solutions_by_similarity: the positions of the solutions in the
\* store's list, in the order returned
rank_solutions_by_similarity(req, sols) ==
    LET scored == [i \in 1..Len(sols) |->
                      <<i, calculate_similarity(req, sols[i])>>]
        sorted == sort_descending(scored)
    IN  [i \in 1..Len(sorted) |-> sorted[i][1]]

\* search_similar_solutions(request): the store's candidates, ranked; a
\* failure anywhere in the search gives the empty list
search_similar_solutions(req, sols, failed) ==
    /\ ~search_result.called          \* the model follows one search
    /\ search_request' = req
    /\ candidates' = IF failed THEN <<>> ELSE sols
    /\ search_result' =
           [called |-> TRUE, failed |-> failed,
            ranked |-> IF failed THEN <<>>
                       ELSE rank_solutions_by_similarity(req, sols)]

NextSearch ==
    /\ \E req \in SearchRequests, sols \in candidate_lists(MaxCandidates),
          failed \in BOOLEAN :
          search_similar_solutions(req, sols, failed)
    /\ UNCHANGED other_than_search

\* searches of the knowledge manager
SpecSearch == Init /\ [][NextSearch]_vars

(* ----------------------- parsing model output --------------------------- *)
(* The four parsers of model responses.  A response is a sequence of       *)
(* tokens: the opening fence of a json block ("fence_json"), a bare fence   *)
(* ("fence"), the braces, the members of an object ("member") and any      *)
(* other text ("prose").  The opening fence contains the bare one.         *)

Tokens == {"fence_json", "fence", "{", "}", "member", "prose"}

\* the responses of at most n tokens
responses(n) == UNION {[1..k -> Tokens] : k \in 0..n}

\* the part of the response handed to json.loads
extract_json(text) ==
    LET places(tok) == {i \in 1..Len(text) : text[i] = tok}
        first(S) == CHOOSE i \in S : \A j \in S : i <= j
        last(S) == CHOOSE i \in S : \A j \in S : i >= j
    IN  IF places("fence_json") # {}
        THEN \* content[start:end].strip(), end the next fence of either kind
             LET start == first(places("fence_json")) + 1
                 closing == {i \in places("fence") \cup places("fence_json") : i >= start}
             IN  IF closing # {}
                 THEN SubSeq(text, start, first(closing) - 1)
                 ELSE \* find gives -1: the slice drops the last character
                      IF start > Len(text) THEN <<>>
                      ELSE SubSeq(text, start, Len(text) - 1) \o
                           (IF text[Len(text)] \in {"{", "}"} THEN <<>>
                            ELSE <<"prose">>)
        ELSE IF places("{") # {} /\ places("}") # {}
        THEN \* content[find("{") : rfind("}") + 1]
             SubSeq(text, first(places("{")), last(places("}")))
        ELSE text

\* json.loads succeeds on the extracted part
loads_ok(json_content) ==
    json_content \in {<<"{", "}">>, <<"{", "member", "}">>}

\* the try block of a parser: the map json.loads gives, or on any
\* failure the value of the parser's except block
parse_json(text, on_failure) ==
    LET json_content == extract_json(text)
    IN  IF ~loads_ok(json_content) THEN on_failure
        ELSE IF json_content = <<"{", "}">> THEN "empty_map"
        ELSE "map_with_members"

\* LowCodeDeveloperAgent._parse_analysis_result
parse_analysis_result(text) ==
    /\ parse_result.parser = "none"      \* the model follows one parse
    /\ content' = text
    /\ parse_result' = [parser |-> "parse_analysis_result",
                        value |-> parse_json(text, "default_analysis")]

\* LowCodeDeveloperAgent._parse_plan_result
parse_plan_result(text) ==
    /\ parse_result.parser = "none"
    /\ content' = text
    /\ parse_result' = [parser |-> "parse_plan_result",
                        value |-> parse_json(text, "default_plan")]

\* FunctionValidatorAgent._parse_json_response
validator_parse_json_response(text) ==
    /\ parse_result.parser = "none"
    /\ content' = text
    /\ parse_result' = [parser |-> "validator_parse_json_response",
                        value |-> parse_json(text, "empty_map")]

\* KnowledgeManagerAgent._parse_json_response
knowledge_parse_json_response(text) ==
    /\ parse_result.parser = "none"
    /\ content' = text
    /\ parse_result' = [parser |-> "knowledge_parse_json_response",
                        value |-> parse_json(text, "empty_map")]

\* the operations _plan_implementation reads from a parsed plan:
\* plan_result.get("operations", []); the default plan holds one
operations_derived(value) ==
    IF value = "default_plan" THEN 1 ELSE 0

NextParse ==
    \/ /\ \E text \in responses(MaxTokens) : parse_analysis_result(text)
       /\ UNCHANGED other_than_parse
    \/ /\ \E text \in responses(MaxTokens) : parse_plan_result(text)
       /\ UNCHANGED other_than_parse
    \/ /\ \E text \in responses(MaxTokens) :
             validator_parse_json_response(text)
       /\ UNCHANGED other_than_parse
    \/ /\ \E text \in responses(MaxTokens) :
             knowledge_parse_json_response(text)
       /\ UNCHANGED other_than_parse

\* parses of model responses
SpecParse == Init /\ [][NextParse]_vars

(* ------------------------------ claims --------------------------------- *)

\* the node that ran last, "" before the first
last_node == IF trace = <<>> THEN "" ELSE Last(trace)

visited(node) == \E i \in 1..Len(trace) : trace[i] = node

\* C1: a run reaches finalize within
\* max_iterations x (max_errors_dev + max_errors_val) state transitions:
\* no run executes more nodes than that budget plus the first one.
C1_TerminatesWithinBudget ==
    Len(trace) <= max_iterations * (max_errors_dev + max_errors_val) + 1

\* C2: execute(request, human_in_loop) never raises to its caller, for
\* every request, an absent one included.
C2_ExecuteNeverRaises ==
    caller = "execute" => result.kind # "raised"

\* C3: the review decision is a function of the validation result,
\* iteration_count, human_in_loop and the thresholds: valid and score >= 0.90
\* is accepted; valid and 0.70 <= score < 0.90 is pending with a human in the
\* loop and accepted without; score < 0.70 or invalid is pending while
\* iteration_count < max_iterations and rejected otherwise.
C3_ReviewDecision ==
    last_node = "review_solution" =>
        LET v == validation_result.is_valid
            s == validation_result.score
        IN  /\ (v /\ s >= 90) => reward_decision = "accepted"
            /\ (v /\ 70 <= s /\ s < 90) =>
                   reward_decision =
                       IF human_in_loop THEN "pending" ELSE "accepted"
            /\ (s < 70 \/ ~v) =>
                   reward_decision =
                       IF iteration_count < max_iterations
                       THEN "pending" ELSE "rejected"

\* C3 witness: a review of a valid result at exactly 0.70 with no human in
\* the loop has accepted it.
C3_Witness ==
    /\ last_node = "review_solution"
    /\ validation_result = ValidationResult(TRUE, 70)
    /\ ~human_in_loop
    /\ reward_decision = "accepted"

\* C4: once finalize has run, the run is successful with the current
\* solution as its final result if and only if a solution exists and that
\* solution's reward decision is not rejected; otherwise success is false
\* and there is no final solution.
C4_SuccessIffSolutionNotRejected ==
    last_node = "finalize" =>
        LET ok == /\ current_solution.present
                  /\ current_solution.reward_decision # "rejected"
        IN  /\ success = ok
            /\ ok => final_solution = current_solution
            /\ ~ok => ~final_solution.present

\* C5: a run that passed through handle_error ends with success false.
C5_HandleErrorEndsUnsuccessful ==
    (pc \in {"END", "done"} /\ visited("handle_error")) => success = FALSE

C7_LowScoreRetriesDevelop ==
    ( /\ last_node = "review_solution"
      /\ validation_result.score < 70 \/ ~validation_result.is_valid
      /\ iteration_count < max_iterations )
    => pc = "develop_solution"

\* C8: iteration_count never exceeds max_iterations.
C8_IterationBounded ==
    iteration_count <= max_iterations

\* C9: after development, recorded errors lead to handle_error, otherwise a
\* solution without operations leads back to develop while
\* iteration_count < max_iterations, otherwise the next node is validate;
\* in particular a produced solution with no operations and budget left is
\* followed by a second develop.
C9_AfterDevelopment ==
    last_node = "develop_solution" =>
        /\ pc = IF errors # <<>> THEN "handle_error"
                ELSE IF current_solution.operations = 0
                        /\ iteration_count < max_iterations
                     THEN "develop_solution"
                     ELSE "validate_solution"
        /\ ( /\ current_solution.present
             /\ current_solution.operations = 0
             /\ iteration_count < max_iterations )
           => pc = "develop_solution"

\* C10 as stated: a failed knowledge search leaves an empty
\* similar-solution list and a warning recorded on the run.
C10_SearchFailureWarned ==
    (search_failed /\ last_node = "search_knowledge") =>
        /\ similar_solutions = 0
        /\ warnings # <<>>

\* C10 as amended: a failed knowledge search leaves an empty
\* similar-solution list and records neither a warning nor an error, and a
\* later development that produces a solution with operations goes on to
\* validate, not to handle_error.
C10_SearchFailureNonFatal ==
    search_failed =>
        /\ similar_solutions = 0
        /\ \A i \in 1..Len(errors) : errors[i] # "search_exception"
        /\ last_node = "search_knowledge" =>
               (warnings = <<>> /\ Len(errors) <= 1)
        /\ ( /\ last_node = "develop_solution"
             /\ current_solution.present
             /\ current_solution.operations > 0 )
           => pc = "validate_solution"

\* C10 witness: after a failed search the developer produced a solution
\* with operations and the run is about to validate it.
C10_Witness ==
    /\ search_failed
    /\ last_node = "develop_solution"
    /\ current_solution.operations > 0
    /\ pc = "validate_solution"

\* C11: with an absent request, initialize records an error and the run
\* goes to finalize as a failure without entering search_knowledge, develop
\* or validate.
C11_AbsentRequestSkipsStages ==
    (request = "None" /\ visited("initialize")) =>
        /\ errors # <<>>
        /\ ~visited("search_knowledge")
        /\ ~visited("develop_solution")
        /\ ~visited("validate_solution")
        /\ pc \in {"END", "done"} => ~success

C13_DeveloperReachesFinalize == <>(dev_pc \in {"END", "done"})

\* C17: within one run of the developer's graph at most one browser
\* session is ever opened (repeated authentication attempts reuse it), at
\* most one session is open at any time, and none is open after
\* finalize_solution
C17_AtMostOneSession ==
    /\ sessions_opened <= 1
    /\ Cardinality(open_sessions) <= 1
    /\ dev_pc \in {"END", "done"} => open_sessions = {}

\* C18: after finalize_solution the solution's success_rate is the number
\* of operations whose success is true over the number of operations, and
\* 0.0 when there are no operations
C18_SuccessRate ==
    dev_pc \in {"END", "done"} =>
        LET ops == solution.operations
            succeeded == {i \in 1..Len(ops) : ops[i] = "True"}
        IN  solution.success_rate =
                IF Len(ops) = 0 THEN <<0, 1>>
                ELSE <<Cardinality(succeeded), Len(ops)>>

\* a run finished with one operation succeeded and one never recorded
C18_Witness ==
    /\ dev_pc = "END"
    /\ solution.operations = <<"True", "None">>
    /\ solution.success_rate = <<1, 2>>

\* C19: at finalization the decision is accepted when the validation
\* result is valid and success_rate >= 0.8, pending when valid and below,
\* rejected otherwise; so it is on the solution of every finished run, and
\* so the decision computes for every validation result and every rate
C19_FinalizeDecision ==
    LET Rule(valid, num, den) ==
            IF valid /\ 5 * num >= 4 * den THEN "accepted"
            ELSE IF valid THEN "pending"
            ELSE "rejected"
    IN  /\ dev_pc \in {"END", "done"} =>
             solution.reward_decision =
                 Rule(solution.validation_result.present
                          /\ solution.validation_result.is_valid,
                      solution.success_rate[1], solution.success_rate[2])
        /\ \A v \in BOOLEAN, c \in Confidences, den \in 1..5 :
             \A num \in 0..den :
                /\ finalize_decision(ValidationResult(v, c), <<num, den>>)
                       = Rule(v, num, den)
                /\ finalize_decision(NoResult, <<num, den>>) = "rejected"

\* the example of C19: two operations, both successful, a valid result
\* of score 0.85: success rate 1.0 and accepted
C19_Witness ==
    /\ dev_pc = "END"
    /\ solution.operations = <<"True", "True">>
    /\ solution.validation_result = ValidationResult(TRUE, 85)
    /\ solution.success_rate = <<2, 2>>
    /\ solution.reward_decision = "accepted"

\* C20: _validate_result marks the solution valid exactly when a success
\* indicator is present in the analysis and its confidence is above 0.7
C20_ValidIffIndicatorAndConfidence ==
    analysis.present =>
        (solution.validation_result.is_valid <=>
            (analysis.is_success /\ analysis.confidence_score > 70))

C15_ReturnedRunClosedItsSession ==
    dev_pc = "done" =>
        /\ "finalize_solution" \in dev_visited
        /\ open_sessions = {}

\* C16: of two workflow runs going on at the same time, the developer of
\* one never executes on, navigates or closes the browser session the
\* other is using
C16_RunsDoNotInteract == interference = {}

\* C21: over any sequence of store and rollback calls, storing with
\* accepted never lowers the solution's success_rate, storing with
\* rejected and rolling back never raise it, storing with pending leaves
\* it as it was, and every success_rate stays within [0, 1]
C21_SuccessRateMonotone ==
    /\ \A id \in SolutionIds :
         /\ objects[id].success_rate \in 0..100
         /\ table[id].success_rate \in 0..100
    /\ last_call.rate_after \in 0..100
    /\ last_call.op = "store" =>
         /\ objects[last_call.id].success_rate = last_call.rate_after
         /\ last_call.decision = "accepted" =>
                last_call.rate_after >= last_call.rate_before
         /\ last_call.decision = "rejected" =>
                last_call.rate_after <= last_call.rate_before
         /\ last_call.decision = "pending" =>
                last_call.rate_after = last_call.rate_before
    /\ last_call.op = "rollback" =>
         last_call.rate_after <= last_call.rate_before

\* an accepted store that hit the upper end of the range
C21_Witness ==
    /\ last_call.op = "store"
    /\ last_call.decision = "accepted"
    /\ last_call.rate_before = 95
    /\ last_call.rate_after = 100

\* C22: every store call, whatever the decision and whether or not the
\* write of the row succeeds, hands exactly one RewardTransaction for the
\* solution to the store, of +100 points for accepted, -50 for rejected
\* and 0 for pending, and writes the solution through store_solution
C22_StoreRecordsTransaction ==
    [][(km_calls' # km_calls /\ last_call'.op = "store") =>
          /\ transactions' =
                 Append(transactions,
                        [solution_id |-> last_call'.id,
                         reward_points |->
                             CASE last_call'.decision = "accepted" -> 100
                               [] last_call'.decision = "rejected" -> 0 - 50
                               [] last_call'.decision = "pending" -> 0])
          /\ Len(writes') = Len(writes) + 1
          /\ writes'[Len(writes')].solution_id = last_call'.id]_vars

\* a rejected store whose write of the row failed
C22_Witness ==
    /\ last_call.op = "store"
    /\ last_call.decision = "rejected"
    /\ writes # <<>> /\ ~Last(writes).ok
    /\ transactions # <<>>
    /\ Last(transactions) =
           [solution_id |-> last_call.id, reward_points |-> 0 - 50]

\* C23: every stored knowledge entry was made of a solution that was
\* accepted when the entry was made, and storing a rejected or pending
\* solution makes no entry
C23_EntriesOnlyFromAccepted ==
    /\ [](\A i \in 1..Len(entries) : entries[i].decision = "accepted")
    /\ [][(km_calls' # km_calls /\ last_call'.op = "store"
              /\ last_call'.decision # "accepted") =>
            entries' = entries]_vars

\* an entry exists, made of a solution that was then stored as rejected
C23_Witness ==
    /\ \E i \in 1..Len(entries) : entries[i].solution_id = last_call.id
    /\ last_call.op = "store"
    /\ last_call.decision = "rejected"

\* C24: rollback of an existing solution returns success, hands over a
\* VersionInfo marked as rollback, lowers the stored success_rate by 0.1
\* (not below 0) and sets the stored decision to rejected; rollback of a
\* missing solution id returns failure
C24_RollbackUpdatesStoredSolution ==
    last_call.op = "rollback" =>
        IF last_call.existed
        THEN /\ last_call.returned
             /\ versions # <<>>
             /\ Last(versions).entity_id = last_call.id
             /\ Last(versions).is_rollback
             /\ table[last_call.id].present
             /\ table[last_call.id].reward_decision = "rejected"
             /\ table[last_call.id].success_rate =
                    IF last_call.rate_before < 10 THEN 0
                    ELSE last_call.rate_before - 10
        ELSE ~last_call.returned

\* C25: after cleanup(retention_days) no stored solution is left that is
\* rejected and older than the cutoff
C25_CleanupDeletesOldRejected ==
    last_call.op = "cleanup" =>
        \A id \in SolutionIds :
            table[id].present =>
                ~(table[id].reward_decision = "rejected"
                    /\ table[id].age > last_call.days)

\* C26: search_similar_solutions returns the store's candidates as a
\* permutation in descending order of similarity to the request, where
\* candidates of equal similarity keep the order the store gave them; a
\* failed search returns the empty list
C26_RankedStableDescending ==
    search_result.called =>
        LET ranked == search_result.ranked
            sim(i) == calculate_similarity(search_request,
                                           candidates[ranked[i]])
        IN  IF search_result.failed THEN ranked = <<>>
            ELSE /\ Len(ranked) = Len(candidates)
                 /\ \A k \in 1..Len(candidates) :
                        \E i \in 1..Len(ranked) : ranked[i] = k
                 /\ \A i, j \in 1..Len(ranked) :
                        i < j =>
                          /\ sim(i)[1] * sim(j)[2] >= sim(j)[1] * sim(i)[2]
                          /\ sim(i)[1] * sim(j)[2] = sim(j)[1] * sim(i)[2]
                                 => ranked[i] < ranked[j]

\* a search whose candidates came out of order and with a tie among them
C26_Witness ==
    /\ search_result.called
    /\ ~search_result.failed
    /\ Len(candidates) = 3
    /\ search_result.ranked = <<2, 3, 1>>
    /\ calculate_similarity(search_request, candidates[2])[1] > 0
    /\ calculate_similarity(search_request, candidates[2]) =
           calculate_similarity(search_request, candidates[3])

\* C27: whichever parser reads it (the developer's analysis and plan
\* parsers, the validator's, the knowledge manager's), a malformed
\* response parses to the empty map, and no operation is derived from it
C27_MalformedParsesToEmptyMap ==
    (parse_result.parser # "none" /\ ~loads_ok(extract_json(content))) =>
        /\ parse_result.value = "empty_map"
        /\ operations_derived(parse_result.value) = 0

\* C28: the solution develop(request) returns carries the request's id,
\* whether the graph completed (with or without the error budget used up)
\* or raised
C28_ReturnedSolutionCarriesRequestId ==
    /\ dev_pc \in {"done", "raised"} =>
           /\ returned.kind \in {"final", "fallback", "failed"}
           /\ returned.request_id = dev_request
           /\ dev_request \in RequestIds
    /\ dev_pc \notin {"done", "raised"} => returned = NothingReturned

\* the graph raised out of a run that had counted an error, and develop
\* returned the failure solution
C28_Witness ==
    /\ dev_pc = "raised"
    /\ returned.kind = "failed"
    /\ dev_request = "r2"
    /\ error_count >= 1

\* C29: a step of execute_operations on the operation at the current
\* index either succeeds, and then the index grows by one and the error
\* count stays, or fails, and then the error count grows by one and the
\* index stays, so that the same operation is tried by the next step while
\* the error budget lasts; with the index past the end of the list the
\* step changes neither
C29_StepMovesIndexOrErrorCount ==
    [][(dev_pc = "execute_operations" /\ dev_pc' # "raised") =>
          IF current_operation_index >= Len(solution.operations)
          THEN /\ current_operation_index' = current_operation_index
               /\ error_count' = error_count
               /\ solution' = solution
               /\ checkpoints' = checkpoints
          ELSE /\ last_step'.index = current_operation_index
               /\ IF last_step'.outcome = "True"
                  THEN /\ current_operation_index' =
                              current_operation_index + 1
                       /\ error_count' = error_count
                       /\ solution'.operations[last_step'.index + 1] = "True"
                  ELSE /\ current_operation_index' = current_operation_index
                       /\ error_count' = error_count + 1
                       /\ solution'.operations[last_step'.index + 1] # "True"
                       /\ error_count' < max_errors_dev =>
                              dev_pc' = "execute_operations"]_vars

\* the first operation failed once and then succeeded on the retry
C29_Witness ==
    /\ last_step = [index |-> 0, outcome |-> "True"]
    /\ checkpoints = <<0, 0>>
    /\ current_operation_index = 1
    /\ error_count = 1
    /\ solution.operations[1] = "True"

\* C30: a step that attempts operation i appends, in the same step, a
\* checkpoint whose operation_index is i to the checkpoint list; a step
\* whose checkpoint creation fails does not attempt the operation
C30_CheckpointBeforeEveryAttempt ==
    [][(dev_pc = "execute_operations" /\ dev_pc' # "raised") =>
          /\ last_step'.outcome \in attempt_outcomes =>
                 /\ checkpoints' =
                        Append(checkpoints, current_operation_index)
                 /\ last_step'.index = current_operation_index
          /\ last_step'.outcome = "checkpoint_raised" =>
                 /\ checkpoints' = checkpoints
                 /\ solution' = solution
                 /\ current_operation_index' = current_operation_index
          /\ Len(checkpoints') > Len(checkpoints) =>
                 last_step'.outcome \notin {"checkpoint_raised", "past_end"}
      ]_vars

\* the second operation was attempted and failed, behind a checkpoint of
\* its own
C30_Witness ==
    /\ last_step = [index |-> 1, outcome |-> "False"]
    /\ checkpoints = <<0, 1>>
    /\ solution.operations = <<"True", "False">>

\* C31: handle_error entered with the error budget not used up rolls back
\* (the operation index goes down by one) and hands the run back to
\* execute_operations, which tries the operation at that index again
\* before the run is finalized
C31_RollbackIsReattempted ==
    [][(dev_pc = "handle_error" /\ error_count < max_errors_dev) =>
          /\ current_operation_index' =
                 IF checkpoints # <<>> /\ current_operation_index > 0
                 THEN current_operation_index - 1
                 ELSE current_operation_index
          /\ dev_pc' = "execute_operations"]_vars

\* C32: authentication is idempotent and bounded: an authenticated run
\* makes no further login attempt; an attempt either succeeds and goes on
\* to execute_operations, or adds one to error_count and is retried only
\* while error_count < max_errors, going to handle_error otherwise; a run
\* makes at most max_errors attempts
C32_AuthenticationBounded ==
    /\ [](login_attempts <= max_errors_dev)
    /\ [][is_authenticated => login_attempts' = login_attempts]_vars
    /\ [][(dev_pc = "authenticate" /\ ~is_authenticated) =>
            /\ login_attempts' = login_attempts + 1
            /\ IF is_authenticated'
               THEN /\ error_count' = error_count
                    /\ dev_pc' = "execute_operations"
               ELSE /\ error_count' = error_count + 1
                    /\ dev_pc' = IF error_count' < max_errors_dev
                                 THEN "authenticate"
                                 ELSE "handle_error"]_vars

\* the last attempt the budget allowed logged in
C32_Witness ==
    /\ login_attempts = max_errors_dev
    /\ is_authenticated
    /\ error_count = max_errors_dev - 1

\* C35: error_count never exceeds max_errors, whichever stages the errors
\* came from
C35_ErrorCountWithinBudget ==
    error_count <= max_errors_dev

\* the budget was used up by errors of authentication and of execution
C35_Witness ==
    /\ dev_pc = "handle_error"
    /\ error_count = max_errors_dev
    /\ login_attempts >= 2
    /\ last_step.outcome \in {"False", "raised", "not_found"}

\* C36: the operation index stays between 0 and the number of planned
\* operations, every operation before it is marked successful, and a
\* solution that reached validate_result has all operations successful
C36_IndexWithinPlanAndPrefixSuccessful ==
    /\ current_operation_index \in 0..Len(solution.operations)
    /\ \A i \in 1..current_operation_index : solution.operations[i] = "True"
    /\ (dev_pc = "validate_result" \/ "validate_result" \in dev_visited) =>
           \A i \in 1..Len(solution.operations) :
               solution.operations[i] = "True"

\* two operations reached validate_result after one failed attempt
C36_Witness ==
    /\ dev_pc = "validate_result"
    /\ solution.operations = <<"True", "True">>
    /\ current_operation_index = 2
    /\ Len(checkpoints) = 3

\* C37: a run whose handle_error found the error budget used up returns a
\* rejected solution, although finalize_solution sets the decision anew
C37_ExhaustedBudgetReturnsRejected ==
    ("handle_error" \in dev_visited /\ error_count >= max_errors_dev) =>
        /\ dev_pc \in {"END", "done"} => solution.reward_decision = "rejected"
        /\ dev_pc = "done" => returned.reward_decision = "rejected"

\* such a run, with every operation successful, returned its solution
C37_Witness ==
    /\ dev_pc = "done"
    /\ "handle_error" \in dev_visited
    /\ error_count >= max_errors_dev
    /\ returned.kind = "final"
    /\ solution.operations = <<"True", "True">>

\* C34: the VersionInfo records of one entity carry strictly increasing
\* version numbers in the order of their creation, by rollback or by
\* create_version, and a record once created is not changed
C34_VersionNumbersIncrease ==
    /\ [](\A i, j \in 1..Len(versions) :
            (i < j /\ versions[i].entity_id = versions[j].entity_id) =>
                versions[i].version_number < versions[j].version_number)
    /\ [][/\ Len(versions') >= Len(versions)
          /\ SubSeq(versions', 1, Len(versions)) = versions]_vars

\* C33: analyze_results leaves as score the successful scenarios over the
\* executed ones and as validity whether that rate is at least 0.70; with
\* no executed scenario the score is 0.0 and the result invalid; the
\* issues of the result are the scenarios' issues, concatenated in order
C33_AnalyzedScoreValidityIssues ==
    /\ [][val_pc = "analyze_test_results" =>
            LET total == Len(test_results)
                successful == Cardinality({i \in 1..total :
                                              test_results[i].success})
                issues[k \in 0..total] ==
                    IF k = 0 THEN <<>>
                    ELSE issues[k - 1] \o test_results[k].issues
            IN  /\ validator_result'.issues = issues[total]
                /\ IF total = 0
                   THEN /\ validator_result'.score = <<0, 1>>
                        /\ ~validator_result'.is_valid
                   ELSE /\ validator_result'.score = <<successful, total>>
                        /\ validator_result'.is_valid <=>
                               (successful * 100 >= 70 * total)]_vars
    /\ [](\A k \in 0..10 :
            LET results == [i \in 1..10 |->
                               scenario_result(FALSE,
                                   IF i <= k THEN "success" ELSE "mismatch")]
            IN  analyzed_result(results).is_valid <=> (k >= 7))

\* two scenarios were analyzed, one successful and one not, both with an
\* issue: the score is 1/2 and the result invalid
C33_Witness ==
    /\ val_pc = "generate_suggestions"
    /\ Len(test_results) = 2
    /\ test_results[1].success
    /\ test_results[1].issues = <<"step_failed">>
    /\ test_results[2].issues = <<"step_failed", "unexpected_result">>
    /\ validator_result.score = <<1, 2>>
    /\ ~validator_result.is_valid
    /\ Len(validator_result.issues) = 3

\* C39: a recorded scenario result that counts as successful had all of
\* its steps executed successfully
C39_SuccessfulScenarioRanAllSteps ==
    \A i \in 1..Len(test_results) :
        test_results[i].success => test_results[i].steps_ok

C40_ReturnedDecisionIsReviewDecision ==
    ( /\ pc = "done"
      /\ caller = "execute"
      /\ result.kind = "solution"
      /\ visited("review_solution") )
    => result.solution.reward_decision = reward_decision

====
